---- MODULE Spec2Model ----
(***************************************************************************)
(* Model of chatllama's ModelLoader (rlhf/model_loader.py) and of the      *)
(* dimension bookkeeping of the Stable-Diffusion adapters                  *)
(* (nebullvm/tools/diffusers.py).                                          *)
(*                                                                         *)
(* Python strings are sequences of one-character strings, so that          *)
(* split, startswith, sorted, int() and f-string formatting are computed   *)
(* character by character.  None (for Optional[str]) is the one-element    *)
(* sequence <<"None">>, which is no string over the alphabet Chars.        *)
(***************************************************************************)
EXTENDS Integers, Sequences, FiniteSets, TLC

VARIABLES dirs, files, op, args, ret, raised, pc, graph, trace

vars == <<dirs, files, op, args, ret, raised, pc, graph, trace>>

\* the state of a call of optimize: the next statement, the Optimizer's
\* graph and the Optimizer methods called so far
optvars == <<pc, graph, trace>>

(***************************************************************************)
(* Bounds of the model.                                                    *)
(***************************************************************************)
\* the environment keeps at most MaxFiles files in the model folders
MaxFiles == 2
\* at most MaxFolders model folders are created in one run
MaxFolders == 1

(***************************************************************************)
(* Strings.                                                                *)
(***************************************************************************)
\* the alphabet, in increasing code point order
Chars ==
  <<".", "/", "0", "1", "2", "3", "4", "5", "6", "7", "8", "9", "_",
    "a", "b", "c", "d", "e", "f", "g", "h", "i", "j", "k", "l", "m",
    "n", "o", "p", "q", "r", "s", "t", "u", "v", "w", "x", "y", "z">>

Digits == <<"0", "1", "2", "3", "4", "5", "6", "7", "8", "9">>

None == <<"None">>

\* None for an Optional[int]; the epochs of the model are naturals
NoneInt == -1

\* rank of a character in code point order (Python compares str by code point)
Ord(c) == CHOOSE i \in 1..Len(Chars) : Chars[i] = c

\* a < b for Python str
StrLess(a, b) ==
  \E i \in 1..(Len(a) + 1) :
    /\ \A j \in 1..(i - 1) : j <= Len(b) /\ a[j] = b[j]
    /\ \/ i = Len(a) + 1 /\ i <= Len(b)
       \/ i <= Len(a) /\ i <= Len(b) /\ Ord(a[i]) < Ord(b[i])

\* s.startswith(p)
startswith(s, p) ==
  /\ Len(p) <= Len(s)
  /\ \A i \in 1..Len(p) : s[i] = p[i]

\* positions of the character c in s
Positions(s, c) == {i \in 1..Len(s) : s[i] = c}

Min(S) == CHOOSE x \in S : \A y \in S : x <= y

Max(S) == CHOOSE x \in S : \A y \in S : y <= x

\* s.split(c)[0]
SplitFirst(s, c) ==
  IF Positions(s, c) = {} THEN s
  ELSE SubSeq(s, 1, Min(Positions(s, c)) - 1)

\* s.split(c)[-1]
SplitLast(s, c) ==
  IF Positions(s, c) = {} THEN s
  ELSE SubSeq(s, Max(Positions(s, c)) + 1, Len(s))

\* value of a decimal digit
DigitVal(c) == (CHOOSE i \in 1..10 : Digits[i] = c) - 1

IsDigit(c) == \E i \in 1..10 : Digits[i] = c

\* int(s) succeeds: over the alphabet Chars (no sign, no blank; '_' is
\* allowed by int() between digits only)
IsIntLiteral(s) ==
  /\ Len(s) > 0
  /\ IsDigit(s[1])
  /\ IsDigit(s[Len(s)])
  /\ \A i \in 1..Len(s) : IsDigit(s[i]) \/ s[i] = "_"
  /\ \A i \in 1..(Len(s) - 1) : ~(s[i] = "_" /\ s[i + 1] = "_")

RECURSIVE IntOf(_)
\* int(s) for a string of digits
IntOf(s) ==
  IF Len(s) = 0 THEN 0
  ELSE IF s[Len(s)] = "_" THEN IntOf(SubSeq(s, 1, Len(s) - 1))
  ELSE 10 * IntOf(SubSeq(s, 1, Len(s) - 1)) + DigitVal(s[Len(s)])

RECURSIVE StrOfNat(_)
\* f"{n}" for a natural n
StrOfNat(n) ==
  IF n < 10 THEN <<Digits[n + 1]>>
  ELSE StrOfNat(n \div 10) \o <<Digits[(n % 10) + 1]>>

RECURSIVE Insert(_, _)
\* insertion of x into the sorted list l
Insert(l, x) ==
  IF l = <<>> THEN <<x>>
  ELSE IF StrLess(x, Head(l)) THEN <<x>> \o l
  ELSE <<Head(l)>> \o Insert(Tail(l), x)

RECURSIVE SetToSeq(_)
\* a set as a list, in some order
SetToSeq(S) ==
  IF S = {} THEN <<>>
  ELSE LET x == CHOOSE y \in S : TRUE IN <<x>> \o SetToSeq(S \ {x})

RECURSIVE sorted(_)
\* sorted(l) for a list of str
sorted(l) ==
  IF l = <<>> THEN <<>>
  ELSE Insert(sorted(Tail(l)), Head(l))

(***************************************************************************)
(* Paths and the filesystem (dirs and files are sets of paths).            *)
(***************************************************************************)
\* os.path.join(a, b)
join(a, b) ==
  IF Len(b) > 0 /\ b[1] = "/" THEN b
  ELSE IF Len(a) = 0 \/ a[Len(a)] = "/" THEN a \o b
  ELSE a \o <<"/">> \o b

\* os.path.split(p)[-1]
basename(p) == SplitLast(p, "/")

\* the directory part of a path with at least one '/' inside
dirname(p) ==
  IF Positions(p, "/") = {} THEN <<>>
  ELSE SubSeq(p, 1, Max(Positions(p, "/")) - 1)

\* os.path.exists(p)
exists(p, ds, fs) == p \in ds \/ p \in fs

\* the folder and all its parents, as os.makedirs creates them
Ancestors(p) ==
  {SubSeq(p, 1, i - 1) : i \in {j \in Positions(p, "/") : j > 1}} \cup {p}

\* os.listdir(folder), for an existing folder
listdir(folder, ds, fs) ==
  {basename(p) : p \in {q \in ds \cup fs : dirname(q) = folder /\ q # folder}}

(***************************************************************************)
(* Inputs: configurations, epochs, file names.                             *)
(***************************************************************************)
S_checkpoints == <<"c", "h", "e", "c", "k", "p", "o", "i", "n", "t", "s">>

S_reward == <<"r", "e", "w", "a", "r", "d">>

S_critic == <<"c", "r", "i", "t", "i", "c">>

S_actor == <<"a", "c", "t", "o", "r">>

S_actor_rl == <<"a", "c", "t", "o", "r", "_", "r", "l">>

S_pt == <<".", "p", "t">>

S_epoch == <<"_", "e", "p", "o", "c", "h", "_">>

\* the list of known hub identifiers (chatllama.rlhf.model_list.hf_models)
hf_models == {<<"o", "/", "m">>}

\* base folders of the configurations
BaseFolders == {<<"b">>}

\* model identifiers: a plain name, a hub identifier, a local path that is
\* no hub identifier, and no identifier at all
Models == {<<"m">>, <<"o", "/", "m">>, <<"x", "/", "m">>, None}

\* ConfigActor
ActorConfigs ==
  [kind : {"ConfigActor"}, model_folder : BaseFolders, model : Models]

\* ConfigReward, also used for the critic (is_reward tells them apart)
RewardConfigs ==
  [kind : {"ConfigReward"}, model_folder : BaseFolders, model : Models,
   is_reward : BOOLEAN]

\* Config, the composite that nests the actor's configuration
CompositeConfigs == [kind : {"Config"}, actor : ActorConfigs]

\* an object of any other type
OtherConfigs == [kind : {"Other"}]

Configs == ActorConfigs \cup RewardConfigs \cup CompositeConfigs \cup OtherConfigs

\* values of current_epoch
Epochs == {NoneInt, 10}

\* names of the files the training run leaves in the model folders
FileNames ==
  { <<"m">> \o S_pt,
    <<"m">> \o S_epoch \o <<"3">> \o S_pt,
    <<"m">> \o S_epoch \o <<"1", "0">> \o S_pt,
    <<"m", "m">> \o S_pt }

(***************************************************************************)
(* ModelLoader.                                                            *)
(***************************************************************************)
\* look_for_last_checkpoint taking the first of the sorted names
look_for_last_checkpoint_first(model_folder, model_name, ds, fs) ==
  IF model_folder \notin ds
  THEN [raised |-> IF model_folder \in fs THEN "NotADirectoryError"
                   ELSE "FileNotFoundError",
        value |-> None]
  ELSE
    LET name == SplitFirst(model_name, ".")
        checkpoints ==
          {f \in listdir(model_folder, ds, fs) : startswith(f, name)}
        ordered == sorted(SetToSeq(checkpoints))
    IN  IF Cardinality(checkpoints) = 0
        THEN [raised |-> "none", value |-> None]
        ELSE [raised |-> "none", value |-> ordered[1]]

\* ModelLoader.look_for_last_checkpoint
look_for_last_checkpoint(model_folder, model_name, ds, fs) ==
  IF model_folder \notin ds
  THEN [raised |-> IF model_folder \in fs THEN "NotADirectoryError"
                   ELSE "FileNotFoundError",
        value |-> None]
  ELSE
    LET name == SplitFirst(model_name, ".")
        checkpoints ==
          {f \in listdir(model_folder, ds, fs) : startswith(f, name)}
        ordered == sorted(SetToSeq(checkpoints))
    IN  IF Cardinality(checkpoints) = 0
        THEN [raised |-> "none", value |-> None]
        ELSE [raised |-> "none", value |-> ordered[Len(ordered)]]

\* get_model_path, lines 84-92: the base folder of the models
BaseFolderOf(config) ==
  IF config.kind \in {"ConfigActor", "ConfigReward"} THEN config.model_folder
  ELSE config.actor.model_folder

\* ModelFolderOf with the reward and critic folders exchanged
ModelFolderOf_swapped(config, is_checkpoint) ==
  LET base == BaseFolderOf(config)
      f1 == IF is_checkpoint THEN join(base, S_checkpoints) ELSE base
  IN  IF config.kind = "ConfigReward"
      THEN IF config.is_reward THEN join(f1, S_critic)
           ELSE join(f1, S_reward)
      ELSE IF config.kind = "ConfigActor" THEN join(f1, S_actor)
      ELSE IF config.kind = "Config" THEN join(f1, S_actor_rl)
      ELSE f1

\* get_model_path, lines 94-110: the folder of the model type
ModelFolderOf(config, is_checkpoint) ==
  LET base == BaseFolderOf(config)
      f1 == IF is_checkpoint THEN join(base, S_checkpoints) ELSE base
  IN  IF config.kind = "ConfigReward"
      THEN IF config.is_reward THEN join(f1, S_reward)
           ELSE join(f1, S_critic)
      ELSE IF config.kind = "ConfigActor" THEN join(f1, S_actor)
      ELSE IF config.kind = "Config" THEN join(f1, S_actor_rl)
      ELSE f1

\* ModelNameOf collapsing every identifier, in the hub list or not
ModelNameOf_collapse_all(config) ==
  LET n0 == IF config.kind = "Config" THEN config.actor.model
            ELSE IF config.kind \in {"ConfigReward", "ConfigActor"}
            THEN config.model
            ELSE None
  IN  IF n0 # None THEN basename(n0) ELSE n0

\* get_model_path, lines 117-126: the name of the model
ModelNameOf(config) ==
  LET n0 == IF config.kind = "Config" THEN config.actor.model
            ELSE IF config.kind \in {"ConfigReward", "ConfigActor"}
            THEN config.model
            ELSE None
  IN  IF n0 \in hf_models THEN basename(n0) ELSE n0

\* get_model_path, lines 130-136: the name of the file
FileNameOf(model_name, is_checkpoint, current_epoch) ==
  IF is_checkpoint /\ current_epoch # NoneInt
  THEN model_name \o S_epoch \o StrOfNat(current_epoch) \o S_pt
  ELSE model_name \o S_pt

\* get_model_path leaving the path out for every checkpoint
get_model_path_no_ckpt_path(config, is_checkpoint, current_epoch, ds, fs) ==
  IF config.kind \notin {"ConfigActor", "ConfigReward", "Config"}
  THEN [raised |-> "ValueError", value |-> <<>>, dirs |-> ds]
  ELSE
    LET model_folder == ModelFolderOf(config, is_checkpoint)
        ds1 == IF ~exists(model_folder, ds, fs)
               THEN ds \cup Ancestors(model_folder) ELSE ds
        name == ModelNameOf(config)
        model_name == FileNameOf(name, is_checkpoint, current_epoch)
        path == IF is_checkpoint THEN None
                ELSE join(model_folder, model_name)
    IN  IF name = None
        THEN [raised |-> "ValueError", value |-> <<>>, dirs |-> ds1]
        ELSE [raised |-> "none", value |-> <<model_folder, model_name, path>>,
              dirs |-> ds1]

\* get_model_path calling os.makedirs without the test of os.path.exists
get_model_path_always_makedirs(config, is_checkpoint, current_epoch, ds, fs) ==
  IF config.kind \notin {"ConfigActor", "ConfigReward", "Config"}
  THEN [raised |-> "ValueError", value |-> <<>>, dirs |-> ds]
  ELSE
    LET model_folder == ModelFolderOf(config, is_checkpoint)
        ds1 == ds \cup Ancestors(model_folder)
        name == ModelNameOf(config)
        model_name == FileNameOf(name, is_checkpoint, current_epoch)
        path == IF is_checkpoint /\ current_epoch = NoneInt THEN None
                ELSE join(model_folder, model_name)
    IN  IF exists(model_folder, ds, fs)
        THEN [raised |-> "FileExistsError", value |-> <<>>, dirs |-> ds]
        ELSE IF name = None
        THEN [raised |-> "ValueError", value |-> <<>>, dirs |-> ds1]
        ELSE [raised |-> "none", value |-> <<model_folder, model_name, path>>,
              dirs |-> ds1]

\* ModelLoader.get_model_path; dirs is the set of directories it leaves
get_model_path(config, is_checkpoint, current_epoch, ds, fs) ==
  IF config.kind \notin {"ConfigActor", "ConfigReward", "Config"}
  THEN [raised |-> "ValueError", value |-> <<>>, dirs |-> ds]
  ELSE
    LET model_folder == ModelFolderOf(config, is_checkpoint)
        ds1 == IF ~exists(model_folder, ds, fs)
               THEN ds \cup Ancestors(model_folder) ELSE ds
        name == ModelNameOf(config)
        model_name == FileNameOf(name, is_checkpoint, current_epoch)
        path == IF is_checkpoint /\ current_epoch = NoneInt THEN None
                ELSE join(model_folder, model_name)
    IN  IF name = None
        THEN [raised |-> "ValueError", value |-> <<>>, dirs |-> ds1]
        ELSE [raised |-> "none", value |-> <<model_folder, model_name, path>>,
              dirs |-> ds1]

\* check_model_path, lines 189-207: the messages and the returned value
Report(path, is_checkpoint, scanned, last_checkpoint, ds) ==
  IF path = None
  THEN [raised |-> "none", value |-> <<path>>, dirs |-> ds]
  ELSE IF is_checkpoint
  THEN IF ~scanned
       THEN [raised |-> "UnboundLocalError", value |-> <<>>, dirs |-> ds]
       ELSE IF ~IsIntLiteral(SplitFirst(SplitLast(last_checkpoint, "_"), "."))
       THEN [raised |-> "ValueError", value |-> <<>>, dirs |-> ds]
       ELSE [raised |-> "none", value |-> <<path>>, dirs |-> ds]
  ELSE [raised |-> "none", value |-> <<path>>, dirs |-> ds]

\* check_model_path without the demotion of a path that does not exist
check_model_path_no_demotion(config, is_checkpoint, current_epoch, ds, fs) ==
  LET g == get_model_path(config, is_checkpoint, current_epoch, ds, fs)
  IN  IF g.raised # "none" THEN g
      ELSE
        LET model_folder == g.value[1]
            model_name == g.value[2]
            scanned == is_checkpoint /\ current_epoch = NoneInt
            l == look_for_last_checkpoint(model_folder, model_name, g.dirs, fs)
        IN  IF scanned /\ l.raised # "none"
            THEN [raised |-> l.raised, value |-> <<>>, dirs |-> g.dirs]
            ELSE
              LET path1 == IF scanned /\ l.value # None
                           THEN join(model_folder, l.value)
                           ELSE g.value[3]
              IN  Report(path1, is_checkpoint, scanned, l.value, g.dirs)

\* ModelLoader.check_model_path
check_model_path(config, is_checkpoint, current_epoch, ds, fs) ==
  LET g == get_model_path(config, is_checkpoint, current_epoch, ds, fs)
  IN  IF g.raised # "none" THEN g
      ELSE
        LET model_folder == g.value[1]
            model_name == g.value[2]
            scanned == is_checkpoint /\ current_epoch = NoneInt
            l == look_for_last_checkpoint(model_folder, model_name, g.dirs, fs)
        IN  IF scanned /\ l.raised # "none"
            THEN [raised |-> l.raised, value |-> <<>>, dirs |-> g.dirs]
            ELSE
              LET path1 == IF scanned /\ l.value # None
                           THEN join(model_folder, l.value)
                           ELSE g.value[3]
                  path2 == IF path1 # None /\ ~exists(path1, g.dirs, fs)
                           THEN None ELSE path1
              IN  Report(path2, is_checkpoint, scanned, l.value, g.dirs)

(***************************************************************************)
(* The state machine: a training run that saves files, and the calls of    *)
(* the three methods of ModelLoader.                                       *)
(***************************************************************************)
NoArgs == [none |-> TRUE]

\* no call of optimize is in progress
NoOptimize ==
  /\ pc = 0
  /\ graph = [none |-> TRUE]
  /\ trace = <<>>

Init ==
  /\ dirs = {}
  /\ files = {}
  /\ op = "init"
  /\ args = NoArgs
  /\ ret = <<>>
  /\ raised = "none"
  /\ NoOptimize

\* the folders of the model types
ModelFolders == {ModelFolderOf(c, k) : c \in Configs \ OtherConfigs, k \in BOOLEAN}

\* the folders of the models and the folders of the checkpoints
FoldersOf(is_checkpoint) ==
  {ModelFolderOf(c, is_checkpoint) : c \in Configs \ OtherConfigs}

\* the files the training runs may leave: the final model m.pt of every
\* model type, a checkpoint of epoch 10 of every model type, and in the
\* actor's checkpoint folder every name of FileNames
SavedFiles ==
  {join(d, <<"m">> \o S_pt) : d \in FoldersOf(FALSE)}
    \cup {join(d, <<"m">> \o S_epoch \o StrOfNat(10) \o S_pt) :
            d \in FoldersOf(TRUE)}
    \cup {join(join(join(b, S_checkpoints), S_actor), n) :
            b \in BaseFolders, n \in FileNames}

\* the training run saves a model or a checkpoint in a model folder
SaveFile ==
  /\ Cardinality(files) < MaxFiles
  /\ \E p \in SavedFiles :
       /\ dirname(p) \in dirs
       /\ p \notin files
       /\ files' = files \cup {p}
  /\ op' = "save"
  /\ args' = NoArgs
  /\ ret' = <<>>
  /\ raised' = "none"
  /\ UNCHANGED <<dirs, optvars>>

\* the names look_for_last_checkpoint is called with
NameArgs == {<<"m">> \o S_pt, <<"m", "m">> \o S_pt, <<"m", ".", "1">> \o S_pt}

LookForLastCheckpoint ==
  \E folder \in ModelFolders, name \in NameArgs :
    LET r == look_for_last_checkpoint(folder, name, dirs, files)
    IN  /\ op' = "look_for_last_checkpoint"
        /\ args' = [model_folder |-> folder, model_name |-> name]
        /\ ret' = IF r.raised = "none" THEN <<r.value>> ELSE <<>>
        /\ raised' = r.raised
        /\ UNCHANGED <<dirs, files, optvars>>

GetModelPath ==
  \E config \in Configs, is_checkpoint \in BOOLEAN, current_epoch \in Epochs :
    LET r == get_model_path(config, is_checkpoint, current_epoch, dirs, files)
    IN  /\ Cardinality(r.dirs \cap ModelFolders) <= MaxFolders
        /\ dirs' = r.dirs
        /\ op' = "get_model_path"
        /\ args' = [config |-> config, is_checkpoint |-> is_checkpoint,
                    current_epoch |-> current_epoch]
        /\ ret' = r.value
        /\ raised' = r.raised
        /\ UNCHANGED <<files, optvars>>

CheckModelPath ==
  \E config \in Configs, is_checkpoint \in BOOLEAN, current_epoch \in Epochs :
    LET r == check_model_path(config, is_checkpoint, current_epoch, dirs, files)
    IN  /\ Cardinality(r.dirs \cap ModelFolders) <= MaxFolders
        /\ dirs' = r.dirs
        /\ op' = "check_model_path"
        /\ args' = [config |-> config, is_checkpoint |-> is_checkpoint,
                    current_epoch |-> current_epoch]
        /\ ret' = r.value
        /\ raised' = r.raised
        /\ UNCHANGED <<files, optvars>>

Next ==
  \/ SaveFile
  \/ LookForLastCheckpoint
  \/ GetModelPath
  \/ CheckModelPath

Spec == Init /\ [][Next]_vars

(***************************************************************************)
(* Properties of ModelLoader.                                              *)
(***************************************************************************)
Recognized(config) == config.kind \in {"ConfigActor", "ConfigReward", "Config"}

\* the configuration's model identifier
IdentifierOf(config) ==
  IF config.kind = "Config" THEN config.actor.model ELSE config.model

HasIdentifier(config) == Recognized(config) /\ IdentifierOf(config) # None

E3 == <<"m">> \o S_epoch \o <<"3">> \o S_pt

E10 == <<"m">> \o S_epoch \o <<"1", "0">> \o S_pt

\* the entries of the folder that start with the prefix of the name
Matching(folder, name) ==
  {f \in listdir(folder, dirs, files) : startswith(f, SplitFirst(name, "."))}

Selected(config) ==
  look_for_last_checkpoint(ModelFolderOf(config, TRUE),
                           ModelNameOf(config) \o S_pt, dirs, files).value

\* the epochs N for which name is {model}_epoch_{N}.pt
EpochsNamed(config, name) ==
  {n \in 0..20 : name = ModelNameOf(config) \o S_epoch \o StrOfNat(n) \o S_pt}

\* C2: in the scan case, when the selected checkpoint {name}_epoch_{N}.pt
\* exists, check_model_path returns the pair (folder/{name}_epoch_{N}.pt, N).
C2_ScanReturnsPathAndEpoch ==
  (/\ op = "check_model_path"
   /\ args.is_checkpoint
   /\ args.current_epoch = NoneInt
   /\ HasIdentifier(args.config)
   /\ EpochsNamed(args.config, Selected(args.config)) # {}) =>
    /\ raised = "none"
    /\ Len(ret) = 2
    /\ ret[1] = join(ModelFolderOf(args.config, TRUE), Selected(args.config))
    /\ ret[2] \in EpochsNamed(args.config, Selected(args.config))

\* C3: check_model_path on a query whose folder has no entries returns the
\* pair (None, None).
C3_EmptyFolderReturnsNonePair ==
  (/\ op = "check_model_path"
   /\ HasIdentifier(args.config)
   /\ listdir(ModelFolderOf(args.config, args.is_checkpoint), dirs, files) = {}) =>
    /\ raised = "none"
    /\ Len(ret) = 2
    /\ ret[1] = None
    /\ ret[2] = None

\* the path of the checkpoint of the given epoch
CheckpointPath(config, epoch) ==
  join(ModelFolderOf(config, TRUE),
       ModelNameOf(config) \o S_epoch \o StrOfNat(epoch) \o S_pt)

\* C4: with is_checkpoint and an epoch N given, check_model_path does not
\* raise and yields folder/{name}_epoch_{N}.pt when that file exists and None
\* when it does not.
C4_GivenEpochYieldsPath ==
  (/\ op = "check_model_path"
   /\ args.is_checkpoint
   /\ args.current_epoch # NoneInt
   /\ HasIdentifier(args.config)) =>
    /\ raised = "none"
    /\ Len(ret) >= 1
    /\ ret[1] = IF exists(CheckpointPath(args.config, args.current_epoch),
                          dirs, files)
                THEN CheckpointPath(args.config, args.current_epoch)
                ELSE None

\* the path of the model that is no checkpoint
ModelPath(config) ==
  join(ModelFolderOf(config, FALSE), ModelNameOf(config) \o S_pt)

\* C5: with is_checkpoint false, whatever the epoch, the path yielded by
\* check_model_path is folder/{name}.pt exactly when that file exists, and
\* None otherwise; a path returned by check_model_path always exists.
C5_ModelPathIffExists ==
  /\ (/\ op = "check_model_path"
      /\ ~args.is_checkpoint
      /\ HasIdentifier(args.config)) =>
       /\ raised = "none"
       /\ ret = <<IF exists(ModelPath(args.config), dirs, files)
                  THEN ModelPath(args.config) ELSE None>>
  /\ (op = "check_model_path" /\ raised = "none" /\ ret[1] # None) =>
       exists(ret[1], dirs, files)

C5_Witness ==
  /\ op = "check_model_path"
  /\ ~args.is_checkpoint
  /\ args.current_epoch # NoneInt
  /\ raised = "none"
  /\ ret = <<ModelPath(args.config)>>
  /\ ModelPath(args.config) \in files

\* C6: get_model_path returns no path if and only if is_checkpoint is true
\* and the epoch is absent; in every other case the path is the join of the
\* returned folder and the returned file name.
C6_PathNoneIffScan ==
  (op = "get_model_path" /\ raised = "none") =>
    /\ Len(ret) = 3
    /\ (ret[3] = None) <=> (args.is_checkpoint /\ args.current_epoch = NoneInt)
    /\ (ret[3] # None) => ret[3] = join(ret[1], ret[2])

C6_Witness ==
  /\ op = "get_model_path"
  /\ raised = "none"
  /\ args.is_checkpoint
  /\ args.current_epoch # NoneInt
  /\ ret[3] = join(ret[1], ret[2])

\* the role segment of a recognized configuration
RoleSegment(config) ==
  CASE config.kind = "ConfigReward" /\ config.is_reward -> S_reward
    [] config.kind = "ConfigReward" /\ ~config.is_reward -> S_critic
    [] config.kind = "ConfigActor" -> S_actor
    [] config.kind = "Config" -> S_actor_rl

\* C7: the folder returned by get_model_path is the base folder (the nested
\* actor's for the composite), then 'checkpoints' exactly when is_checkpoint,
\* then the role segment reward, critic, actor or actor_rl.
C7_FolderLayout ==
  (op = "get_model_path" /\ raised = "none") =>
    ret[1] =
      (IF args.config.kind = "Config" THEN args.config.actor.model_folder
       ELSE args.config.model_folder)
      \o (IF args.is_checkpoint THEN <<"/">> \o S_checkpoints ELSE <<>>)
      \o <<"/">> \o RoleSegment(args.config)

C7_Witness ==
  /\ op = "get_model_path"
  /\ raised = "none"
  /\ args.config.kind = "ConfigReward"
  /\ ~args.config.is_reward
  /\ args.is_checkpoint
  /\ ret[1] = <<"b", "/">> \o S_checkpoints \o <<"/">> \o S_critic

\* the part of s after its last '/'
TrailingSegment(s) ==
  CHOOSE t \in {SubSeq(s, k, Len(s)) : k \in 1..(Len(s) + 1)} :
    /\ Positions(t, "/") = {}
    /\ Len(t) = Len(s) \/ s[Len(s) - Len(t)] = "/"

\* the name part of the file name built for the configuration
ExpectedName(config) ==
  IF IdentifierOf(config) \in hf_models
  THEN TrailingSegment(IdentifierOf(config))
  ELSE IdentifierOf(config)

\* s is the decimal notation of the natural n
IsDecimalOf(s, n) ==
  /\ IsIntLiteral(s)
  /\ Positions(s, "_") = {}
  /\ Len(s) = 1 \/ s[1] # "0"
  /\ IntOf(s) = n

\* C8: the file name returned by get_model_path is the model identifier,
\* collapsed to its trailing path segment only when it is in the hub list,
\* followed by _epoch_{epoch}.pt when is_checkpoint is true and the epoch is
\* present, and by .pt in every other case.
C8_FileName ==
  (op = "get_model_path" /\ raised = "none") =>
    LET name == ExpectedName(args.config)
        n == Len(name)
        f == ret[2]
    IN  IF args.is_checkpoint /\ args.current_epoch # NoneInt
        THEN /\ Len(f) > n + 10
             /\ SubSeq(f, 1, n + 7) = name \o S_epoch
             /\ IsDecimalOf(SubSeq(f, n + 8, Len(f) - 3), args.current_epoch)
             /\ SubSeq(f, Len(f) - 2, Len(f)) = S_pt
        ELSE f = name \o S_pt

C8_Witness ==
  /\ op = "get_model_path"
  /\ raised = "none"
  /\ IdentifierOf(args.config) = <<"o", "/", "m">>
  /\ args.is_checkpoint
  /\ args.current_epoch = 10
  /\ ret[2] = E10

\* C9: look_for_last_checkpoint returns None, and does not raise, when the
\* folder does not exist, as when the folder holds no matching entry.
C9_MissingFolderReturnsNone ==
  (/\ op = "look_for_last_checkpoint"
   /\ \/ args.model_folder \notin dirs
      \/ Matching(args.model_folder, args.model_name) = {}) =>
    /\ raised = "none"
    /\ ret = <<None>>

\* C14: with is_checkpoint false and a model identifier, resolving the
\* folder is idempotent: a call for a folder that exists, and a call that
\* repeats the previous one, returns the same path, does not fail and
\* leaves the filesystem as it was.
C14_ResolveFolderIdempotent ==
  [][/\ (/\ op' = "get_model_path"
         /\ ~args'.is_checkpoint
         /\ HasIdentifier(args'.config)
         /\ (<<"b", "/">> \o RoleSegment(args'.config)) \in dirs) =>
          /\ raised' = "none"
          /\ ret'[1] = <<"b", "/">> \o RoleSegment(args'.config)
          /\ dirs' = dirs
          /\ files' = files
     /\ (/\ op = "get_model_path"
         /\ raised = "none"
         /\ ~args.is_checkpoint
         /\ op' = "get_model_path"
         /\ args' = args) =>
          /\ raised' = "none"
          /\ ret' = ret
          /\ dirs' = dirs
          /\ files' = files]_vars

\* a call of get_model_path for a folder in which the run has saved a file:
\* the folder was resolved by an earlier call
C14_Witness ==
  /\ op = "get_model_path"
  /\ raised = "none"
  /\ ~args.is_checkpoint
  /\ \E f \in files : dirname(f) = ret[1]

\* the name without its .pt suffix
Stem(name) == SubSeq(name, 1, Len(name) - 3)

\* C15: look_for_last_checkpoint matches with the prefix {name} of the base
\* name {name}.pt, also when name contains '.': only entries that start with
\* the full model name are candidates.
C15_PrefixIsFullName ==
  (op = "look_for_last_checkpoint" /\ raised = "none") =>
    LET m == {f \in listdir(args.model_folder, dirs, files) :
                startswith(f, Stem(args.model_name))}
    IN  IF m = {} THEN ret = <<None>>
        ELSE ret[1] \in m

\* C17: in the scan case the entry check_model_path selects has the form
\* {name}_epoch_{N}.pt, the epoch is parsed and the call does not raise.
C17_ScanSelectsCheckpoint ==
  (/\ op = "check_model_path"
   /\ args.is_checkpoint
   /\ args.current_epoch = NoneInt
   /\ HasIdentifier(args.config)) =>
    /\ raised = "none"
    /\ \/ Selected(args.config) = None
       \/ EpochsNamed(args.config, Selected(args.config)) # {}

\* C18: a call of get_model_path or check_model_path that fails because the
\* config type is not recognized or because there is no model identifier
\* leaves the filesystem unchanged.
C18_FailureLeavesFilesystem ==
  [][(/\ op' \in {"get_model_path", "check_model_path"}
      /\ raised' = "ValueError"
      /\ ~HasIdentifier(args'.config)) =>
       /\ dirs' = dirs
       /\ files' = files]_vars

(***************************************************************************)
(* The Stable-Diffusion adapters: BaseModel and its dimension checks.      *)
(***************************************************************************)
\* BaseModel.__init__: self.min_batch
min_batch == 1

\* BaseModel.__init__: self.min_image_shape
min_image_shape == 256

\* BaseModel.__init__: self.max_image_shape
max_image_shape == 1024

\* BaseModel.__init__: self.min_latent_shape
min_latent_shape == min_image_shape \div 8

\* BaseModel.__init__: self.max_latent_shape
max_latent_shape == max_image_shape \div 8

\* values of max_batch_size the adapters are built with (16 is the default)
MaxBatchSizes == {4, 16}

\* BaseModel.__init__: the default of text_maxlen, which no adapter changes
text_maxlen == 77

\* get_embedding_dim: 768 for the versions 1.x, 1024 for the versions 2.x
EmbeddingDims == {768, 1024}

\* make_UNet: unet_dim is 9 for inpainting and 4 otherwise
UNetDims == {4, 9}

\* the adapters make_CLIP, make_VAE, make_VAEEncoder and make_UNet build
Adapters ==
  [role : {"CLIP", "VAE", "VAEEncoder"}, max_batch : MaxBatchSizes,
   embedding_dim : EmbeddingDims, text_maxlen : {text_maxlen}]
    \cup [role : {"UNet"}, max_batch : MaxBatchSizes,
          embedding_dim : EmbeddingDims, text_maxlen : {text_maxlen},
          unet_dim : UNetDims]

\* batch sizes of the calls
BatchSizes == {0, 1, 4, 5, 16, 17}

\* image heights and widths of the calls
ImageSizes == {248, 256, 260, 512, 513, 1024, 1028, 1032}

\* BaseModel.check_dims
check_dims(self, batch_size, image_height, image_width) ==
  LET latent_height == image_height \div 8
      latent_width == image_width \div 8
  IN  IF ~(batch_size >= min_batch /\ batch_size <= self.max_batch)
      THEN [raised |-> "AssertionError", value |-> <<>>]
      ELSE IF ~(image_height % 8 = 0 \/ image_width % 8 = 0)
      THEN [raised |-> "AssertionError", value |-> <<>>]
      ELSE IF ~(/\ latent_height >= min_latent_shape
                /\ latent_height <= max_latent_shape)
      THEN [raised |-> "AssertionError", value |-> <<>>]
      ELSE IF ~(/\ latent_width >= min_latent_shape
                /\ latent_width <= max_latent_shape)
      THEN [raised |-> "AssertionError", value |-> <<>>]
      ELSE [raised |-> "none", value |-> <<latent_height, latent_width>>]

\* BaseModel.get_minmax_dims
get_minmax_dims(self, batch_size, image_height, image_width, static_batch, static_shape) ==
  LET latent_height == image_height \div 8
      latent_width == image_width \div 8
  IN  << IF static_batch THEN batch_size ELSE min_batch,
         IF static_batch THEN batch_size ELSE self.max_batch,
         IF static_shape THEN image_height ELSE min_image_shape,
         IF static_shape THEN image_height ELSE max_image_shape,
         IF static_shape THEN image_width ELSE min_image_shape,
         IF static_shape THEN image_width ELSE max_image_shape,
         IF static_shape THEN latent_height ELSE min_latent_shape,
         IF static_shape THEN latent_height ELSE max_latent_shape,
         IF static_shape THEN latent_width ELSE min_latent_shape,
         IF static_shape THEN latent_width ELSE max_latent_shape >>

\* CLIP.get_input_profile
CLIP_get_input_profile(self, batch_size, image_height, image_width, static_batch, static_shape) ==
  LET c == check_dims(self, batch_size, image_height, image_width)
      d == get_minmax_dims(self, batch_size, image_height, image_width,
                           static_batch, static_shape)
  IN  IF c.raised # "none" THEN c
      ELSE [raised |-> "none",
            value |-> [input_ids |-> << <<d[1], self.text_maxlen>>,
                                        <<batch_size, self.text_maxlen>>,
                                        <<d[2], self.text_maxlen>> >>]]

\* UNet.get_input_profile
UNet_get_input_profile(self, batch_size, image_height, image_width, static_batch, static_shape) ==
  LET c == check_dims(self, batch_size, image_height, image_width)
      d == get_minmax_dims(self, batch_size, image_height, image_width,
                           static_batch, static_shape)
  IN  IF c.raised # "none" THEN c
      ELSE [raised |-> "none",
            value |->
              [sample |->
                 << <<2 * d[1], self.unet_dim, d[7], d[9]>>,
                    <<2 * batch_size, self.unet_dim, c.value[1], c.value[2]>>,
                    <<2 * d[2], self.unet_dim, d[8], d[10]>> >>,
               encoder_hidden_states |->
                 << <<2 * d[1], self.text_maxlen, self.embedding_dim>>,
                    <<2 * batch_size, self.text_maxlen, self.embedding_dim>>,
                    <<2 * d[2], self.text_maxlen, self.embedding_dim>> >>]]

\* VAE.get_input_profile
VAE_get_input_profile(self, batch_size, image_height, image_width, static_batch, static_shape) ==
  LET c == check_dims(self, batch_size, image_height, image_width)
      d == get_minmax_dims(self, batch_size, image_height, image_width,
                           static_batch, static_shape)
  IN  IF c.raised # "none" THEN c
      ELSE [raised |-> "none",
            value |-> [latent |-> << <<d[1], 4, d[7], d[9]>>,
                                     <<batch_size, 4, c.value[1], c.value[2]>>,
                                     <<d[2], 4, d[8], d[10]>> >>]]

\* VAEEncoder.get_input_profile
VAEEncoder_get_input_profile(self, batch_size, image_height, image_width, static_batch, static_shape) ==
  LET c == check_dims(self, batch_size, image_height, image_width)
      d == get_minmax_dims(self, batch_size, image_height, image_width,
                           static_batch, static_shape)
  IN  IF ~(batch_size >= min_batch /\ batch_size <= self.max_batch)
      THEN [raised |-> "AssertionError", value |-> <<>>]
      ELSE IF c.raised # "none" THEN c
      ELSE [raised |-> "none",
            value |-> [images |-> << <<d[1], 3, d[3], d[5]>>,
                                     <<batch_size, 3, image_height, image_width>>,
                                     <<d[2], 3, d[4], d[6]>> >>]]

\* get_input_profile of the adapter's class
get_input_profile(self, batch_size, image_height, image_width, static_batch, static_shape) ==
  CASE self.role = "CLIP" ->
         CLIP_get_input_profile(self, batch_size, image_height, image_width,
                                static_batch, static_shape)
    [] self.role = "UNet" ->
         UNet_get_input_profile(self, batch_size, image_height, image_width,
                                static_batch, static_shape)
    [] self.role = "VAE" ->
         VAE_get_input_profile(self, batch_size, image_height, image_width,
                               static_batch, static_shape)
    [] self.role = "VAEEncoder" ->
         VAEEncoder_get_input_profile(self, batch_size, image_height,
                                      image_width, static_batch, static_shape)

\* CLIP.get_shape_dict
CLIP_get_shape_dict(self, batch_size, image_height, image_width) ==
  LET c == check_dims(self, batch_size, image_height, image_width)
  IN  IF c.raised # "none" THEN c
      ELSE [raised |-> "none",
            value |->
              [input_ids |-> <<batch_size, self.text_maxlen>>,
               text_embeddings |->
                 <<batch_size, self.text_maxlen, self.embedding_dim>>]]

\* UNet.get_shape_dict without the doubling of the batch of the text states
UNet_get_shape_dict_single_batch(self, batch_size, image_height, image_width) ==
  LET c == check_dims(self, batch_size, image_height, image_width)
  IN  IF c.raised # "none" THEN c
      ELSE [raised |-> "none",
            value |->
              [sample |->
                 <<2 * batch_size, self.unet_dim, c.value[1], c.value[2]>>,
               encoder_hidden_states |->
                 <<batch_size, self.text_maxlen, self.embedding_dim>>,
               latent |-> <<2 * batch_size, 4, c.value[1], c.value[2]>>]]

\* UNet.get_shape_dict
UNet_get_shape_dict(self, batch_size, image_height, image_width) ==
  LET c == check_dims(self, batch_size, image_height, image_width)
  IN  IF c.raised # "none" THEN c
      ELSE [raised |-> "none",
            value |->
              [sample |->
                 <<2 * batch_size, self.unet_dim, c.value[1], c.value[2]>>,
               encoder_hidden_states |->
                 <<2 * batch_size, self.text_maxlen, self.embedding_dim>>,
               latent |-> <<2 * batch_size, 4, c.value[1], c.value[2]>>]]

\* VAE.get_shape_dict
VAE_get_shape_dict(self, batch_size, image_height, image_width) ==
  LET c == check_dims(self, batch_size, image_height, image_width)
  IN  IF c.raised # "none" THEN c
      ELSE [raised |-> "none",
            value |->
              [latent |-> <<batch_size, 4, c.value[1], c.value[2]>>,
               images |-> <<batch_size, 3, image_height, image_width>>]]

\* VAEEncoder.get_shape_dict
VAEEncoder_get_shape_dict(self, batch_size, image_height, image_width) ==
  LET c == check_dims(self, batch_size, image_height, image_width)
  IN  IF c.raised # "none" THEN c
      ELSE [raised |-> "none",
            value |->
              [images |-> <<batch_size, 3, image_height, image_width>>,
               latent |-> <<batch_size, 4, c.value[1], c.value[2]>>]]

\* get_shape_dict of the adapter's class
get_shape_dict(self, batch_size, image_height, image_width) ==
  CASE self.role = "CLIP" ->
         CLIP_get_shape_dict(self, batch_size, image_height, image_width)
    [] self.role = "UNet" ->
         UNet_get_shape_dict(self, batch_size, image_height, image_width)
    [] self.role = "VAE" ->
         VAE_get_shape_dict(self, batch_size, image_height, image_width)
    [] self.role = "VAEEncoder" ->
         VAEEncoder_get_shape_dict(self, batch_size, image_height, image_width)

\* the calls of the adapters' methods: the arguments are drawn at the start
DimArgs ==
  [self : Adapters, batch_size : BatchSizes, image_height : ImageSizes,
   image_width : ImageSizes, static_batch : BOOLEAN, static_shape : BOOLEAN]

InitDims ==
  /\ dirs = {}
  /\ files = {}
  /\ op = "init"
  /\ args \in DimArgs
  /\ ret = <<>>
  /\ raised = "none"
  /\ NoOptimize

CheckDims ==
  LET r == check_dims(args.self, args.batch_size, args.image_height,
                      args.image_width)
  IN  /\ op' = "check_dims"
      /\ ret' = r.value
      /\ raised' = r.raised
      /\ UNCHANGED <<args, dirs, files, optvars>>

GetInputProfile ==
  LET r == get_input_profile(args.self, args.batch_size, args.image_height,
                             args.image_width, args.static_batch,
                             args.static_shape)
  IN  /\ op' = "get_input_profile"
      /\ ret' = r.value
      /\ raised' = r.raised
      /\ UNCHANGED <<args, dirs, files, optvars>>

GetShapeDict ==
  LET r == get_shape_dict(args.self, args.batch_size, args.image_height,
                          args.image_width)
  IN  /\ op' = "get_shape_dict"
      /\ ret' = r.value
      /\ raised' = r.raised
      /\ UNCHANGED <<args, dirs, files, optvars>>

NextDims ==
  \/ CheckDims
  \/ GetInputProfile
  \/ GetShapeDict

SpecDims == InitDims /\ [][NextDims]_vars

(***************************************************************************)
(* The Optimizer and the optimize methods.  A graph is its serialized size *)
(* in bytes and the names of its outputs; what the graph library does to   *)
(* the size is not fixed by this code and is left open.  A size of         *)
(* q * 2^30 + r bytes (0 <= r < 2^30) is the record [q |-> q, r |-> r],    *)
(* since 2147483648 is beyond the integers of the model checker.           *)
(***************************************************************************)
\* 2^30
Gi == 1073741824

\* Optimizer.infer_shapes: the greatest supported ByteSize, 2147483648
SizeLimit == [q |-> 2, r |-> 0]

\* a <= b for sizes
SizeLE(a, b) == a.q < b.q \/ (a.q = b.q /\ a.r <= b.r)

\* serialized sizes around the limit: 2147483647, 2147483648, 2147483649
Sizes == {[q |-> 1, r |-> Gi - 1], [q |-> 2, r |-> 0], [q |-> 2, r |-> 1]}

\* output names of the exported graphs
OutputLists ==
  { <<"text_embeddings", "pooler_output">>,
    <<"last_hidden_state", "pooler_output">>,
    <<"latent">>,
    <<"images">> }

\* the graphs optimize is called with
OnnxGraphs == [size : Sizes, outputs : OutputLists]

\* Optimizer.cleanup: graph.cleanup().toposort() removes nodes, it adds none
cleanup(g) == {[g EXCEPT !.size = z] : z \in {y \in Sizes : SizeLE(y, g.size)}}

\* Optimizer.select_outputs
select_outputs(g, keep, names) ==
  IF \E i \in 1..Len(keep) : keep[i] + 1 > Len(g.outputs)
  THEN [raised |-> "IndexError", graph |-> g]
  ELSE
    LET kept == [i \in 1..Len(keep) |-> g.outputs[keep[i] + 1]]
    IN  [raised |-> "none",
         graph |-> [g EXCEPT !.outputs =
                      [i \in 1..Len(kept) |->
                         IF i <= Len(names) THEN names[i] ELSE kept[i]]]]

\* Optimizer.fold_constants: the folded graph may be smaller or larger
fold_constants(g) == {[g EXCEPT !.size = z] : z \in Sizes}

\* infer_shapes refusing a graph of exactly the limit
infer_shapes_at_limit(g) ==
  IF SizeLE(SizeLimit, g.size)
  THEN {[raised |-> "TypeError", graph |-> g]}
  ELSE {[raised |-> "none", graph |-> [g EXCEPT !.size = z]] :
          z \in {y \in Sizes : SizeLE(g.size, y)}}

\* Optimizer.infer_shapes: shape inference adds information to the graph
infer_shapes(g) ==
  IF ~SizeLE(g.size, SizeLimit)
  THEN {[raised |-> "TypeError", graph |-> g]}
  ELSE {[raised |-> "none", graph |-> [g EXCEPT !.size = z]] :
          z \in {y \in Sizes : SizeLE(g.size, y)}}

\* a call of an Optimizer method in the body of optimize
Call(method, keep, names, return_onnx) ==
  [method |-> method, keep |-> keep, names |-> names,
   return_onnx |-> return_onnx]

\* BaseModel.optimize: the calls it makes, in order
BaseModel_optimize ==
  << Call("cleanup", <<>>, <<>>, FALSE),
     Call("fold_constants", <<>>, <<>>, FALSE),
     Call("infer_shapes", <<>>, <<>>, FALSE),
     Call("cleanup", <<>>, <<>>, TRUE) >>

\* CLIP.optimize without the removal of output 1
CLIP_optimize_no_prune ==
  << Call("cleanup", <<>>, <<>>, FALSE),
     Call("fold_constants", <<>>, <<>>, FALSE),
     Call("infer_shapes", <<>>, <<>>, FALSE),
     Call("select_outputs", <<0>>, <<"text_embeddings">>, FALSE),
     Call("cleanup", <<>>, <<>>, TRUE) >>

\* CLIP.optimize: the calls it makes, in order
CLIP_optimize ==
  << Call("select_outputs", <<0>>, <<>>, FALSE),
     Call("cleanup", <<>>, <<>>, FALSE),
     Call("fold_constants", <<>>, <<>>, FALSE),
     Call("infer_shapes", <<>>, <<>>, FALSE),
     Call("select_outputs", <<0>>, <<"text_embeddings">>, FALSE),
     Call("cleanup", <<>>, <<>>, TRUE) >>

\* optimize of the adapter's class (only CLIP overrides BaseModel.optimize)
optimize(self) ==
  IF self.role = "CLIP" THEN CLIP_optimize ELSE BaseModel_optimize

\* the adapters optimize is called on
OptAdapters == [role : {"CLIP", "UNet", "VAE", "VAEEncoder"}]

\* optimize is entered: Optimizer.__init__ imports the graph
InitOpt ==
  /\ dirs = {}
  /\ files = {}
  /\ op = "optimize"
  /\ args \in [self : OptAdapters, onnx_graph : OnnxGraphs]
  /\ ret = <<>>
  /\ raised = "none"
  /\ pc = 1
  /\ graph = args.onnx_graph
  /\ trace = <<>>

\* the call optimize is about to make
Running ==
  /\ op = "optimize"
  /\ raised = "none"
  /\ pc \in 1..Len(optimize(args.self))

Stmt == optimize(args.self)[pc]

\* the entry of the trace for the call about to be made
Entry == [method |-> Stmt.method, names |-> Stmt.names,
          outputs |-> graph.outputs, size |-> graph.size]

Cleanup ==
  /\ Running
  /\ Stmt.method = "cleanup"
  /\ \E g \in cleanup(graph) :
       /\ graph' = g
       /\ ret' = IF Stmt.return_onnx THEN <<g>> ELSE ret
  /\ trace' = Append(trace, Entry)
  /\ pc' = pc + 1
  /\ UNCHANGED <<dirs, files, op, args, raised>>

SelectOutputs ==
  /\ Running
  /\ Stmt.method = "select_outputs"
  /\ LET r == select_outputs(graph, Stmt.keep, Stmt.names)
     IN  /\ graph' = r.graph
         /\ raised' = r.raised
         /\ pc' = IF r.raised = "none" THEN pc + 1 ELSE pc
  /\ trace' = Append(trace, Entry)
  /\ UNCHANGED <<dirs, files, op, args, ret>>

FoldConstants ==
  /\ Running
  /\ Stmt.method = "fold_constants"
  /\ \E g \in fold_constants(graph) : graph' = g
  /\ trace' = Append(trace, Entry)
  /\ pc' = pc + 1
  /\ UNCHANGED <<dirs, files, op, args, ret, raised>>

InferShapes ==
  /\ Running
  /\ Stmt.method = "infer_shapes"
  /\ \E r \in infer_shapes(graph) :
       /\ graph' = r.graph
       /\ raised' = r.raised
       /\ pc' = IF r.raised = "none" THEN pc + 1 ELSE pc
  /\ trace' = Append(trace, Entry)
  /\ UNCHANGED <<dirs, files, op, args, ret>>

NextOpt ==
  \/ Cleanup
  \/ SelectOutputs
  \/ FoldConstants
  \/ InferShapes

SpecOpt == InitOpt /\ [][NextOpt]_vars

(***************************************************************************)
(* Properties of the adapters.                                             *)
(***************************************************************************)
\* the dimensions the documentation of check_dims accepts
ValidDims(self, batch_size, image_height, image_width) ==
  /\ min_batch <= batch_size
  /\ batch_size <= self.max_batch
  /\ image_height % 8 = 0
  /\ image_width % 8 = 0
  /\ 32 <= image_height \div 8
  /\ image_height \div 8 <= 128
  /\ 32 <= image_width \div 8
  /\ image_width \div 8 <= 128

\* C10: check_dims returns (image_height/8, image_width/8) exactly when the
\* batch size is within [min_batch, max_batch], height and width are each
\* divisible by 8 and both latent dimensions lie in [32, 128]; for every
\* other input it fails.
C10_CheckDimsExact ==
  (op = "check_dims") =>
    IF ValidDims(args.self, args.batch_size, args.image_height,
                 args.image_width)
    THEN /\ raised = "none"
         /\ ret = <<args.image_height \div 8, args.image_width \div 8>>
    ELSE /\ raised = "AssertionError"
         /\ ret = <<>>

\* the axes of the tensor t of a profile on which min <= opt <= max fails
BadAxes(profile, t) ==
  {i \in 1..Len(profile[t][2]) :
     ~(profile[t][1][i] <= profile[t][2][i] /\ profile[t][2][i] <= profile[t][3][i])}

\* C11: for every role, every static_batch and static_shape and every
\* (batch_size, image_height, image_width) that check_dims accepts, each
\* (min, opt, max) triple of get_input_profile has min <= opt <= max on
\* every axis.
C11_ProfileMonotone ==
  (op = "get_input_profile" /\ raised = "none") =>
    \A t \in DOMAIN ret : BadAxes(ret, t) = {}

\* the dimensions check_dims accepts
Accepted(self, batch_size, image_height, image_width) ==
  check_dims(self, batch_size, image_height, image_width).raised = "none"

\* the tensors and shapes of a role for the batch size B and an H x W image
\* (the latent edge of an accepted edge that is no multiple of 8 is its
\* integer quotient by 8)
ExpectedShapes(self, B, H, W) ==
  CASE self.role = "CLIP" ->
         [input_ids |-> <<B, self.text_maxlen>>,
          text_embeddings |-> <<B, self.text_maxlen, self.embedding_dim>>]
    [] self.role = "UNet" ->
         [sample |-> <<2 * B, self.unet_dim, H \div 8, W \div 8>>,
          encoder_hidden_states |->
            <<2 * B, self.text_maxlen, self.embedding_dim>>,
          latent |-> <<2 * B, 4, H \div 8, W \div 8>>]
    [] self.role \in {"VAE", "VAEEncoder"} ->
         [latent |-> <<B, 4, H \div 8, W \div 8>>,
          images |-> <<B, 3, H, W>>]

\* C12: for every accepted (B, H, W), get_shape_dict returns exactly the
\* tensors and shapes of the role: the text encoder's input_ids and
\* text_embeddings, the denoiser's sample, encoder_hidden_states and latent
\* with the batch axis doubled, the VAE decoder's and encoder's latent and
\* images.
C12_ShapeDict ==
  (/\ op = "get_shape_dict"
   /\ Accepted(args.self, args.batch_size, args.image_height,
               args.image_width)) =>
    /\ raised = "none"
    /\ ret = ExpectedShapes(args.self, args.batch_size, args.image_height,
                            args.image_width)

C12_Witness ==
  /\ op = "get_shape_dict"
  /\ args.self.role = "UNet"
  /\ args.self.embedding_dim = 768
  /\ args.batch_size = 4
  /\ args.image_height = 512
  /\ args.image_width = 512
  /\ ret.sample = <<8, args.self.unet_dim, 64, 64>>
  /\ ret.encoder_hidden_states = <<8, 77, 768>>
  /\ ret.latent = <<8, 4, 64, 64>>

(***************************************************************************)
(* Properties of optimize.                                                 *)
(***************************************************************************)
\* the four stages of the pipeline, in order
Stages == <<"cleanup", "fold_constants", "infer_shapes", "cleanup">>

\* a call of the trace that is one of the stages
IsStage(e) == e.method # "select_outputs"

\* the stages run so far, in the order they ran
StagesRun ==
  LET st == SelectSeq(trace, IsStage)
  IN  [i \in 1..Len(st) |-> st[i].method]

\* optimize has returned
Finished ==
  /\ op = "optimize"
  /\ raised = "none"
  /\ pc = Len(optimize(args.self)) + 1

\* a serialized size above 2147483648 bytes
TooLarge(size) == ~SizeLE(size, SizeLimit)

\* C13: optimize runs exactly four stages once each in the order cleanup,
\* constant folding, shape inference, cleanup and returns the graph the last
\* cleanup produced; if the serialized size exceeds 2147483648 bytes when
\* shape inference is reached, optimize fails there with an error, the final
\* cleanup never runs and no graph is returned.
C13_FourStages ==
  (op = "optimize") =>
    /\ Len(StagesRun) <= Len(Stages)
    /\ StagesRun = SubSeq(Stages, 1, Len(StagesRun))
    /\ Finished => (StagesRun = Stages /\ ret = <<graph>>)
    /\ ~Finished => ret = <<>>
    /\ \A i \in 1..Len(trace) :
         (trace[i].method = "infer_shapes") =>
           (TooLarge(trace[i].size) <=> raised # "none")
    /\ (raised # "none") =>
         /\ raised = "TypeError"
         /\ StagesRun = SubSeq(Stages, 1, 3)
         /\ trace[Len(trace)].method = "infer_shapes"

\* a graph of exactly 2147483648 bytes passed shape inference and optimize
\* returned the graph of the last cleanup
C13_Witness ==
  /\ Finished
  /\ args.self.role = "UNet"
  /\ StagesRun = Stages
  /\ trace[3].method = "infer_shapes"
  /\ trace[3].size = SizeLimit
  /\ ret = <<graph>>

\* the calls of the trace from the constant folding on
FromFolding ==
  {i \in 1..Len(trace) :
     \E j \in 1..i : trace[j].method = "fold_constants"}

\* C16 as stated: the text encoder's optimize prunes the secondary graph
\* output and renames the remaining output to text_embeddings before the
\* constant folding runs, so that folding and every later stage operate on
\* a graph whose single output is already named text_embeddings.
C16_RenamedBeforeFolding ==
  (op = "optimize" /\ args.self.role = "CLIP") =>
    \A i \in FromFolding :
      /\ trace[i].outputs = <<"text_embeddings">>
      /\ \E j \in 1..i :
           /\ trace[j].method = "select_outputs"
           /\ trace[j].names = <<"text_embeddings">>
           /\ \A k \in 1..j : trace[k].method # "fold_constants"

\* C16: the text encoder's optimize prunes the secondary graph output before
\* the first cleanup and the constant folding, so that cleanup, folding and
\* shape inference operate on a graph whose single output is output 0 of the
\* graph passed in, under its original name; the remaining output is renamed
\* to text_embeddings only after shape inference, so that the final cleanup
\* and the returned graph have the single output text_embeddings.
C16_PrunedBeforeFoldingRenamedAfter ==
  (op = "optimize" /\ args.self.role = "CLIP") =>
    /\ \A i \in 1..Len(trace) :
         /\ (IsStage(trace[i])
               /\ \A j \in 1..i : trace[j].method # "infer_shapes") =>
              trace[i].outputs = <<args.onnx_graph.outputs[1]>>
         /\ (trace[i].method = "infer_shapes") =>
              trace[i].outputs = <<args.onnx_graph.outputs[1]>>
         /\ (trace[i].names = <<"text_embeddings">>) =>
              \E j \in 1..(i - 1) : trace[j].method = "infer_shapes"
         /\ (IsStage(trace[i])
               /\ \E j \in 1..(i - 1) : trace[j].method = "infer_shapes") =>
              trace[i].outputs = <<"text_embeddings">>
    /\ Finished => ret[1].outputs = <<"text_embeddings">>

\* a text encoder graph with the outputs last_hidden_state and pooler_output
\* was folded under the name last_hidden_state and returned with the single
\* output text_embeddings
C16_Witness ==
  /\ Finished
  /\ args.self.role = "CLIP"
  /\ args.onnx_graph.outputs = <<"last_hidden_state", "pooler_output">>
  /\ \E i \in 1..Len(trace) :
       /\ trace[i].method = "fold_constants"
       /\ trace[i].outputs = <<"last_hidden_state">>
  /\ ret[1].outputs = <<"text_embeddings">>

====
